---- MODULE Spec2Model ----
(***************************************************************************)
(* A model of certspotter's log scanner (scanner.go): Scanner.Scan, the    *)
(* fetch loop with its retry budget, the processerJob workers draining the *)
(* jobs channel, and CheckConsistency.                                     *)
(*                                                                         *)
(* One caller goroutine runs Scan (and, inside it, fetch); NumWorkers      *)
(* goroutines per Scan run processerJob.  The log client (GetEntries) and  *)
(* the processing callback are collaborators: a GetEntries call answers    *)
(* with an error or with a number of entries chosen nondeterministically,  *)
(* a callback returns after some time.                                     *)
(***************************************************************************)
EXTENDS Integers, Sequences, FiniteSets, TLC

(* ------------------------------ bounds -------------------------------- *)
\* largest endIndex a Scan is called with
MaxIndex == 3
\* largest ScannerOptions.BatchSize
MaxBatch == 2
\* largest ScannerOptions.NumWorkers
MaxWorkers == 2
\* largest TreeSize of a signed tree head
MaxTree == 2

(* ------------------------- program constants -------------------------- *)
FETCH_RETRIES == 10
FETCH_RETRY_WAIT == 1
\* capacity of the jobs channel: make(chan ct.LogEntry, 100)
JobsCap == 100

(* ------------------------------ values -------------------------------- *)
\* a nil *MerkleTreeBuilder
NilTree == [nil |-> TRUE, hashes |-> <<>>]
\* a MerkleTreeBuilder to which nothing was added yet
EmptyTree == [nil |-> FALSE, hashes |-> <<>>]
\* no request issued yet by the running fetch
NoReq == [start |-> -1, end |-> -1]
\* no entry held by a worker
NoEntry == [Index |-> -1, LeafBytes |-> -1]
\* every index value an entry can carry
Indices == 0..(MaxIndex + 1)
ZeroCount == [i \in Indices |-> 0]
\* a count of 0 for every index a Scan up to endIndex ei can deliver
ZeroCountTo(ei) == IF ei <= MaxIndex THEN ZeroCount ELSE [i \in 0..(ei + 1) |-> 0]
\* a nil ct.ConsistencyProof, and the empty one []ct.MerkleTreeNode{}
NilProof == [nil |-> TRUE, nodes |-> <<>>]
EmptyProof == [nil |-> FALSE, nodes |-> <<>>]
\* GetConsistencyProof was not called
NoAnswer == [err |-> "none", proof |-> NilProof]
\* no signed tree head: a nil *ct.SignedTreeHead
NilHead == [TreeSize |-> -1, RootHash |-> -1]
\* the log client's GetSTH was not called
NoSTHAnswer == [err |-> "none", sth |-> NilHead, signed |-> FALSE]
\* CheckConsistency was not called yet
NoHeads == [first |-> [TreeSize |-> -1, RootHash |-> -1],
            second |-> [TreeSize |-> -1, RootHash |-> -1]]

VARIABLES
    opts,            \* Scanner.opts: [BatchSize, NumWorkers]
    certsProcessed,  \* Scanner.certsProcessed
    scansLeft,       \* Scan invocations the caller will still make
    overReturn,      \* entries a GetEntries answer may carry beyond the request
    shortAnswers,    \* whether a GetEntries answer may carry fewer than requested
    callerArgs,      \* the arguments the caller may pass to Scan
    pc,              \* the caller's position: idle, loop, fetch, ingest, send, wait
    startIndex,      \* Scan's arguments
    endIndex,
    treeBuilder,     \* Scan's *MerkleTreeBuilder: nil, or the hashes added so far
    start,           \* Scan's loop variables
    end,
    r,               \* fetch: the fetchRange
    retries,         \* fetch: retries left
    retryWait,       \* fetch: seconds to sleep before the next retry
    logEntries,      \* fetch: entries of the last answer not yet ingested
    jobs,            \* per Scan: the buffered channel's contents
    closed,          \* per Scan: close(jobs) has happened
    wg,              \* per Scan: processorWG's counter
    wpc,             \* per Scan, per worker: range, add, call, exit
    wentry,          \* per Scan, per worker: the entry being processed
    result,          \* per Scan: running, nil, err
    \* history of the run, read only by the properties
    sent,            \* per Scan: the Index of every entry sent, in order
    received,        \* per Scan: the Index of every entry received, in order
    cbCalls,         \* per Scan: callback invocations per index
    cbRets,          \* per Scan: callback returns per index
    lastReq,         \* the running fetch's last GetEntries request
    lastLen,         \* entries in its answer, -1 for an error
    fails,           \* consecutive failed requests of the running fetch
    slept,           \* the wait before the last retry since the last answer
    okAt,            \* per Scan: most consecutive failures followed by an answer
    closedAt,        \* per Scan: entries sent when the channel was closed
    exitedAt,        \* per Scan: workers exited when Scan returned
    batches,         \* per Scan: the ranges handed to fetch, in order
    ccArgs,          \* CheckConsistency: the two heads of the last call
    ccRet,           \* CheckConsistency: what the last call returned
    ccCalls,         \* CheckConsistency: the collaborators the last call used
    ccAnswer,        \* CheckConsistency: what GetConsistencyProof answered
    ccVerified,      \* CheckConsistency: the proof handed to the verifier
    publicKey,       \* Scanner.publicKey: nil, or a key
    sthRet,          \* GetSTH: what the last call returned
    sthCalls,        \* GetSTH: the collaborators the last call used
    sthAnswer        \* GetSTH: what the log client and the verifier answered

fetchVars == <<r, retries, retryWait, logEntries>>
scanVars == <<startIndex, endIndex, start, end>>
chanVars == <<jobs, closed, wg>>
workerVars == <<wpc, wentry>>
histFetch == <<lastReq, lastLen, fails, slept, okAt>>
histWork == <<received, cbCalls, cbRets>>
ccVars == <<ccArgs, ccRet, ccCalls, ccAnswer, ccVerified>>
sthVars == <<sthRet, sthCalls, sthAnswer>>
envVars == <<overReturn, shortAnswers, callerArgs>>
vars == <<opts, certsProcessed, scansLeft, overReturn, shortAnswers, callerArgs, pc, startIndex, endIndex,
          treeBuilder, start, end, r, retries, retryWait, logEntries, jobs,
          closed, wg, wpc, wentry, result, sent, received, cbCalls, cbRets,
          lastReq, lastLen, fails, slept, okAt, closedAt, exitedAt, batches,
          ccArgs, ccRet, ccCalls, ccAnswer, ccVerified,
          publicKey, sthRet, sthCalls, sthAnswer>>

\* the Scan invocation in progress (or the last one made)
cur == Len(jobs)
Workers == 1..opts.NumWorkers

(* ----------------------------- helpers -------------------------------- *)
\* the larger of the two instead
min_Larger(a, b) == IF a > b THEN a ELSE b
\* Returns the smaller of |a| and |b|
min(a, b) == IF a < b THEN a ELSE b

\* the leaf hash of an entry's bytes (a collaborator of the Merkle engine)
hashLeaf(b) == (7 * b + 3) % 31

\* MerkleTreeBuilder.Add
TreeAdd(tb, h) == IF tb.nil THEN tb ELSE [tb EXCEPT !.hashes = Append(@, h)]

\* the answer of the log to GetEntries(s, e) that carries k entries: the
\* leaves at positions s, s+1, ...
LogAnswer(s, k) == [i \in 1..k |-> s + i - 1]

\* the batch end without the "- 1" that makes it inclusive
BatchEnd_NoMinus(st, ei, bs) == min(st + bs, ei)
\* the numbers of entries an answer to a request for n entries can carry
AnswerSizes(n, short, over) == (IF short THEN 0 ELSE n)..(n + over)

\* the end of the batch that starts at st
BatchEnd(st, ei, bs) == min(st + bs, ei) - 1

\* giving up one retry too early
RetriesExhausted_OffByOne(n) == n <= 1
\* fetch gives up on an error once no retry is left
RetriesExhausted(n) == n = 0

\* a send that never waits for room
HasRoom_Always(q) == TRUE
\* a send on the channel goes through while the buffer is not full
HasRoom(q) == Len(q) < JobsCap

\* a wait that grows by a second instead of doubling
NextWait_Linear(w) == w + 1
\* the wait doubles with every retry
NextWait(w) == w * 2

\* a tree builder that is never fed
TreeSupplied_Never(tb) == FALSE
\* treeBuilder != nil
TreeSupplied(tb) == ~tb.nil

\* the retry budget left as it is after an answer
RetriesAfterAnswer_Kept(n) == n
\* after a request that did not fail the retry budget is full again
RetriesAfterAnswer(n) == FETCH_RETRIES

\* any ingested answer taken as completion
RangeComplete_Always(rr) == TRUE
\* fetch is complete once the start counter has passed the end
RangeComplete(rr) == rr.start > rr.end

\* an increment that is lost when it meets an odd counter
AtomicAddInt64_Lost(v, d) == IF v % 2 = 1 THEN v ELSE v + d
\* atomic.AddInt64
AtomicAddInt64(v, d) == v + d

\* the next batch started at the end of the last one
NextBatchStart_Same(e) == e
\* Scan's loop moves on to the batch after the one that ended at e
NextBatchStart(e) == e + 1

\* a Wait that does not wait
WaitReturns_Always(n) == TRUE
\* processorWG.Wait() returns once the counter is zero
WaitReturns(n) == n = 0

\* a range loop that ends as soon as the channel is empty
RangeEnds_WhenEmpty(q, cl) == q = <<>>
\* a range loop over a channel ends once the channel is closed and empty
RangeEnds(q, cl) == q = <<>> /\ cl

\* the comparison of the tree sizes reversed
Shrunk_Reversed(first, second) == first.TreeSize < second.TreeSize
\* CheckConsistency: the head shrank
Shrunk(first, second) == first.TreeSize > second.TreeSize

\* the equal-size case left out
SameSize_Never(first, second) == FALSE
\* CheckConsistency: the two heads have the same size
SameSize(first, second) == first.TreeSize = second.TreeSize

\* an error of GetConsistencyProof that is not looked at
Failed_Ignored(err) == FALSE
\* err != nil
Failed(err) == err # "nil"

\* a public key that is never looked at
KeyConfigured_Never(key) == FALSE
\* GetSTH: s.publicKey != nil
KeyConfigured(key) == key # "nil"

\* the sum of a count per index
RECURSIVE SumUpTo(_, _)
SumUpTo(f, n) == IF n < 0 THEN 0 ELSE f[n] + SumUpTo(f, n - 1)
Total(f) == SumUpTo(f, Cardinality(DOMAIN f) - 1)

(* ------------------------------- Init --------------------------------- *)
InitState ==
    /\ certsProcessed = 0
    /\ pc = "idle"
    /\ startIndex = 0 /\ endIndex = 0 /\ treeBuilder = NilTree
    /\ start = 0 /\ end = 0
    /\ r = [start |-> 0, end |-> 0]
    /\ retries = FETCH_RETRIES /\ retryWait = FETCH_RETRY_WAIT
    /\ logEntries = <<>>
    /\ jobs = <<>> /\ closed = <<>> /\ wg = <<>> /\ wpc = <<>> /\ wentry = <<>>
    /\ result = <<>>
    /\ sent = <<>> /\ received = <<>> /\ cbCalls = <<>> /\ cbRets = <<>>
    /\ lastReq = NoReq /\ lastLen = -1 /\ fails = 0 /\ slept = 0
    /\ okAt = <<>> /\ closedAt = <<>> /\ exitedAt = <<>> /\ batches = <<>>
    /\ ccArgs = NoHeads
    /\ ccRet = [valid |-> FALSE, treeBuilder |-> NilTree, proof |-> NilProof,
                err |-> "nil"]
    /\ ccCalls = <<>>
    /\ ccAnswer = NoAnswer
    /\ ccVerified = NilProof
    /\ sthRet = [sth |-> NilHead, err |-> "nil"]
    /\ sthCalls = <<>>
    /\ sthAnswer = NoSTHAnswer

InitScanner ==
    /\ opts \in [BatchSize : 1..MaxBatch, NumWorkers : 1..MaxWorkers]
    /\ InitState

\* the Scans a caller may start: every range within 0..MaxIndex, with or
\* without a tree builder
SmallScans == {[startIndex |-> si, endIndex |-> ei, treeBuilder |-> tb] :
                    si \in 0..MaxIndex, ei \in 0..MaxIndex,
                    tb \in {NilTree, EmptyTree}}
Init ==
    /\ InitScanner
    /\ publicKey = "nil"
    /\ scansLeft = 1
    /\ overReturn = 0
    /\ shortAnswers = TRUE
    /\ callerArgs = {a \in SmallScans : a.startIndex <= a.endIndex}

(* ------------------------------- Scan --------------------------------- *)
\* Scan, up to the start of its loop: reset the counter, make the channel,
\* start the workers
ScanStart ==
    /\ pc = "idle"
    /\ scansLeft > 0
    /\ \E args \in callerArgs :
        /\ startIndex' = args.startIndex
        /\ endIndex' = args.endIndex
        /\ treeBuilder' = args.treeBuilder
        /\ start' = args.startIndex
    /\ scansLeft' = scansLeft - 1
    /\ certsProcessed' = 0
    /\ jobs' = Append(jobs, <<>>)
    /\ closed' = Append(closed, FALSE)
    /\ wg' = Append(wg, opts.NumWorkers)
    /\ wpc' = Append(wpc, [w \in Workers |-> "range"])
    /\ wentry' = Append(wentry, [w \in Workers |-> NoEntry])
    /\ result' = Append(result, "running")
    /\ sent' = Append(sent, <<>>)
    /\ received' = Append(received, <<>>)
    /\ cbCalls' = Append(cbCalls, ZeroCountTo(endIndex'))
    /\ cbRets' = Append(cbRets, ZeroCountTo(endIndex'))
    /\ okAt' = Append(okAt, 0)
    /\ closedAt' = Append(closedAt, -1)
    /\ exitedAt' = Append(exitedAt, -1)
    /\ pc' = "loop"
    /\ UNCHANGED <<opts, envVars, end, fetchVars, lastReq, lastLen, fails, slept>>
    /\ batches' = Append(batches, <<>>)
    /\ UNCHANGED <<ccVars, sthVars, publicKey>>

\* one pass of Scan's loop: compute the batch and call fetch
ScanBatch ==
    /\ pc = "loop"
    /\ start < endIndex
    /\ end' = BatchEnd(start, endIndex, opts.BatchSize)
    /\ r' = [start |-> start, end |-> end']
    /\ retries' = FETCH_RETRIES
    /\ retryWait' = FETCH_RETRY_WAIT
    /\ logEntries' = <<>>
    /\ lastReq' = NoReq /\ lastLen' = -1 /\ fails' = 0 /\ slept' = 0
    /\ pc' = "fetch"
    /\ UNCHANGED <<opts, certsProcessed, scansLeft, envVars, startIndex, endIndex,
                   treeBuilder, start, chanVars, workerVars, result, sent, histWork,
                   okAt, closedAt, exitedAt>>
    /\ batches' = [batches EXCEPT ![cur] = Append(@, r')]
    /\ UNCHANGED <<ccVars, sthVars, publicKey>>

\* the loop is over: close(jobs)
ScanClose ==
    /\ pc = "loop"
    /\ ~(start < endIndex)
    /\ closed' = [closed EXCEPT ![cur] = TRUE]
    /\ closedAt' = [closedAt EXCEPT ![cur] = Len(sent[cur])]
    /\ pc' = "wait"
    /\ UNCHANGED <<opts, certsProcessed, scansLeft, envVars, scanVars, treeBuilder,
                   fetchVars, jobs, wg, workerVars, result, sent, histWork, histFetch,
                   exitedAt>>
    /\ UNCHANGED <<ccVars, sthVars, publicKey, batches>>

\* processorWG.Wait() returns; Scan returns nil
ScanWait ==
    /\ pc = "wait"
    /\ WaitReturns(wg[cur])
    /\ result' = [result EXCEPT ![cur] = "nil"]
    /\ exitedAt' = [exitedAt EXCEPT ![cur] =
                        Cardinality({w \in Workers : wpc[cur][w] = "exit"})]
    /\ pc' = "idle"
    /\ UNCHANGED <<opts, certsProcessed, scansLeft, envVars, scanVars, treeBuilder,
                   fetchVars, chanVars, workerVars, sent, histWork, histFetch, closedAt>>
    /\ UNCHANGED <<ccVars, sthVars, publicKey, batches>>

(* ------------------------------- fetch -------------------------------- *)
\* GetEntries(r.start, r.end) fails: retry after a sleep, or give up and
\* make Scan return the error
FetchError ==
    /\ pc = "fetch"
    /\ lastReq' = r
    /\ lastLen' = -1
    /\ fails' = fails + 1
    /\ IF RetriesExhausted(retries)
          THEN /\ result' = [result EXCEPT ![cur] = "err"]
               /\ exitedAt' = [exitedAt EXCEPT ![cur] =
                        Cardinality({w \in Workers : wpc[cur][w] = "exit"})]
               /\ pc' = "idle"
               /\ UNCHANGED <<retries, retryWait, slept>>
          ELSE /\ slept' = retryWait
               /\ retries' = retries - 1
               /\ retryWait' = NextWait(retryWait)
               /\ UNCHANGED <<pc, result, exitedAt>>
    /\ UNCHANGED <<opts, certsProcessed, scansLeft, envVars, scanVars, treeBuilder,
                   r, logEntries, chanVars, workerVars, sent, histWork, okAt, closedAt>>
    /\ UNCHANGED <<ccVars, sthVars, publicKey, batches>>

\* GetEntries(r.start, r.end) answers with k entries
FetchAnswer ==
    /\ pc = "fetch"
    /\ \E k \in AnswerSizes(r.end - r.start + 1, shortAnswers, overReturn) :
        /\ logEntries' = LogAnswer(r.start, k)
        /\ lastLen' = k
    /\ lastReq' = r
    /\ okAt' = [okAt EXCEPT ![cur] = IF fails > @ THEN fails ELSE @]
    /\ fails' = 0
    /\ slept' = 0
    /\ retries' = RetriesAfterAnswer(retries)
    /\ retryWait' = FETCH_RETRY_WAIT
    /\ pc' = "ingest"
    /\ UNCHANGED <<opts, certsProcessed, scansLeft, envVars, scanVars, treeBuilder,
                   r, chanVars, workerVars, result, sent, histWork, closedAt,
                   exitedAt>>
    /\ UNCHANGED <<ccVars, sthVars, publicKey, batches>>

\* one pass of the loop over logEntries, first half: with a tree builder,
\* add the entry's leaf hash to it
FetchAdd ==
    /\ pc = "ingest"
    /\ logEntries # <<>>
    /\ TreeSupplied(treeBuilder)
    /\ treeBuilder' = TreeAdd(treeBuilder, hashLeaf(Head(logEntries)))
    /\ pc' = "send"
    /\ UNCHANGED <<opts, certsProcessed, scansLeft, envVars, scanVars, fetchVars,
                   chanVars, workerVars, result, sent, histWork, histFetch,
                   closedAt, exitedAt>>
    /\ UNCHANGED <<ccVars, sthVars, publicKey, batches>>

\* second half: set the index, send the entry (blocks while the channel is
\* full), advance r.start
FetchSend ==
    /\ \/ pc = "send"
       \/ pc = "ingest" /\ logEntries # <<>> /\ ~TreeSupplied(treeBuilder)
    /\ HasRoom(jobs[cur])
    /\ jobs' = [jobs EXCEPT ![cur] =
                    Append(@, [Index |-> r.start, LeafBytes |-> Head(logEntries)])]
    /\ sent' = [sent EXCEPT ![cur] = Append(@, r.start)]
    /\ r' = [r EXCEPT !.start = @ + 1]
    /\ logEntries' = Tail(logEntries)
    /\ pc' = "ingest"
    /\ UNCHANGED <<opts, certsProcessed, scansLeft, envVars, scanVars, treeBuilder,
                   retries, retryWait, closed, wg, workerVars, result, histWork,
                   histFetch, closedAt, exitedAt>>
    /\ UNCHANGED <<ccVars, sthVars, publicKey, batches>>

\* the answer is ingested: fetch returns nil if the range is complete (and
\* Scan moves to the next batch), else it requests the rest
FetchNext ==
    /\ pc = "ingest"
    /\ logEntries = <<>>
    /\ IF RangeComplete(r)
          THEN /\ start' = NextBatchStart(end)
               /\ pc' = "loop"
          ELSE /\ pc' = "fetch"
               /\ UNCHANGED start
    /\ UNCHANGED <<opts, certsProcessed, scansLeft, envVars, startIndex, endIndex,
                   end, treeBuilder, fetchVars, chanVars, workerVars, result, sent,
                   histWork, histFetch, closedAt, exitedAt>>
    /\ UNCHANGED <<ccVars, sthVars, publicKey, batches>>

(* ---------------------------- processerJob ---------------------------- *)
\* for entry := range entries: receive the next entry
WorkerReceive(sc, w) ==
    /\ wpc[sc][w] = "range"
    /\ jobs[sc] # <<>>
    /\ wentry' = [wentry EXCEPT ![sc][w] = Head(jobs[sc])]
    /\ jobs' = [jobs EXCEPT ![sc] = Tail(@)]
    /\ received' = [received EXCEPT ![sc] = Append(@, Head(jobs[sc]).Index)]
    /\ wpc' = [wpc EXCEPT ![sc][w] = "add"]
    /\ UNCHANGED <<opts, certsProcessed, scansLeft, envVars, pc, scanVars, treeBuilder,
                   fetchVars, closed, wg, result, sent, cbCalls, cbRets, histFetch,
                   closedAt, exitedAt>>
    /\ UNCHANGED <<ccVars, sthVars, publicKey, batches>>

\* atomic.AddInt64(&s.certsProcessed, 1), then the callback is invoked
WorkerCount(sc, w) ==
    /\ wpc[sc][w] = "add"
    /\ certsProcessed' = AtomicAddInt64(certsProcessed, 1)
    /\ cbCalls' = [cbCalls EXCEPT ![sc][wentry[sc][w].Index] = @ + 1]
    /\ wpc' = [wpc EXCEPT ![sc][w] = "call"]
    /\ UNCHANGED <<opts, scansLeft, envVars, pc, scanVars, treeBuilder, fetchVars,
                   chanVars, wentry, result, sent, received, cbRets, histFetch,
                   closedAt, exitedAt>>
    /\ UNCHANGED <<ccVars, sthVars, publicKey, batches>>

\* processCert returns
WorkerReturn(sc, w) ==
    /\ wpc[sc][w] = "call"
    /\ cbRets' = [cbRets EXCEPT ![sc][wentry[sc][w].Index] = @ + 1]
    /\ wentry' = [wentry EXCEPT ![sc][w] = NoEntry]
    /\ wpc' = [wpc EXCEPT ![sc][w] = "range"]
    /\ UNCHANGED <<opts, certsProcessed, scansLeft, envVars, pc, scanVars, treeBuilder,
                   fetchVars, chanVars, result, sent, received, cbCalls, histFetch,
                   closedAt, exitedAt>>
    /\ UNCHANGED <<ccVars, sthVars, publicKey, batches>>

\* the channel is closed and drained: the range loop ends, wg.Done()
WorkerExit(sc, w) ==
    /\ wpc[sc][w] = "range"
    /\ RangeEnds(jobs[sc], closed[sc])
    /\ wg' = [wg EXCEPT ![sc] = @ - 1]
    /\ wpc' = [wpc EXCEPT ![sc][w] = "exit"]
    /\ UNCHANGED <<opts, certsProcessed, scansLeft, envVars, pc, scanVars, treeBuilder,
                   fetchVars, jobs, closed, wentry, result, sent, histWork, histFetch,
                   closedAt, exitedAt>>
    /\ UNCHANGED <<ccVars, sthVars, publicKey, batches>>

(* -------------------------- CheckConsistency -------------------------- *)
\* the root hash of the log's tree over its first n leaves
LogRoot(n) == (5 * n + 1) % 31

\* the signed tree heads a caller can hold: the log's own, or one with
\* another root hash
Heads == {[TreeSize |-> n, RootHash |-> h] :
            n \in 0..MaxTree, h \in {0} \cup {LogRoot(m) : m \in 0..MaxTree}}

\* the consistency proof of the log between sizes m < n
LogProof(m, n) == [i \in 1..(n - m) |-> LogRoot(m + i)]

\* what GetConsistencyProof(m, n) can answer: a transport error, the log's
\* proof, an empty proof, or some other proof
ProofAnswers(m, n) ==
    {[err |-> "transport", proof |-> NilProof]} \cup
    {[err |-> "nil", proof |-> [nil |-> FALSE, nodes |-> p]] :
        p \in {LogProof(m, n), <<>>, <<0>>}}

\* the Merkle engine's verifier: equal sizes are consistent when the roots
\* are equal and the proof is empty; a smaller head is consistent with a
\* larger one when both are the log's and the proof is the log's
VerifyConsistencyProof(proof, first, second) ==
    LET valid ==
            IF first.TreeSize = second.TreeSize
               THEN proof.nodes = <<>> /\ first.RootHash = second.RootHash
               ELSE /\ first.TreeSize < second.TreeSize
                    /\ proof.nodes = LogProof(first.TreeSize, second.TreeSize)
                    /\ first.RootHash = LogRoot(first.TreeSize)
                    /\ second.RootHash = LogRoot(second.TreeSize)
    IN [valid |-> valid,
        treeBuilder |-> IF valid THEN [nil |-> FALSE, hashes |-> proof.nodes]
                                 ELSE NilTree]

CheckConsistency ==
    /\ \E first \in Heads, second \in Heads :
        \E answer \in ProofAnswers(first.TreeSize, second.TreeSize) :
            /\ ccArgs' = [first |-> first, second |-> second]
            /\ IF Shrunk(first, second)
                  THEN \* no way this can be valid
                       /\ ccRet' = [valid |-> FALSE, treeBuilder |-> NilTree,
                                    proof |-> NilProof, err |-> "nil"]
                       /\ ccCalls' = <<>>
                       /\ ccAnswer' = NoAnswer
                       /\ ccVerified' = NilProof
                  ELSE IF SameSize(first, second)
                  THEN \* the proof should be empty: the server is not contacted
                       LET v == VerifyConsistencyProof(EmptyProof, first, second)
                       IN /\ ccRet' = [valid |-> v.valid, treeBuilder |-> v.treeBuilder,
                                       proof |-> EmptyProof, err |-> "nil"]
                          /\ ccCalls' = <<"VerifyConsistencyProof">>
                          /\ ccAnswer' = NoAnswer
                          /\ ccVerified' = EmptyProof
                  ELSE IF Failed(answer.err)
                  THEN /\ ccRet' = [valid |-> FALSE, treeBuilder |-> NilTree,
                                    proof |-> NilProof, err |-> answer.err]
                       /\ ccCalls' = <<"GetConsistencyProof">>
                       /\ ccAnswer' = answer
                       /\ ccVerified' = NilProof
                  ELSE LET v == VerifyConsistencyProof(answer.proof, first, second)
                       IN /\ ccRet' = [valid |-> v.valid, treeBuilder |-> v.treeBuilder,
                                       proof |-> answer.proof, err |-> "nil"]
                          /\ ccCalls' = <<"GetConsistencyProof", "VerifyConsistencyProof">>
                          /\ ccAnswer' = answer
                          /\ ccVerified' = answer.proof
    /\ UNCHANGED <<opts, certsProcessed, scansLeft, envVars, pc, scanVars, treeBuilder,
                   fetchVars, chanVars, workerVars, result, sent, histWork, histFetch,
                   closedAt, exitedAt, batches, sthVars, publicKey>>

(* ------------------------------- GetSTH ------------------------------- *)
\* what the log client's GetSTH can answer: a transport error, or a head
\* whose signature is or is not the log's
STHAnswers ==
    {[err |-> "transport", sth |-> NilHead, signed |-> FALSE]} \cup
    {[err |-> "nil", sth |-> h, signed |-> b] : h \in Heads, b \in BOOLEAN}

\* ct.NewSignatureVerifier: an error for a key of a type it does not support
NewSignatureVerifier(key) == IF key = "unsupported" THEN "unsupported key" ELSE "nil"

\* SignatureVerifier.VerifySTHSignature: an error unless the head carries
\* the log's signature
VerifySTHSignature(answer) == IF answer.signed THEN "nil" ELSE "bad signature"

GetSTH ==
    /\ \E answer \in STHAnswers :
        /\ sthAnswer' = answer
        /\ IF Failed(answer.err)
              THEN /\ sthRet' = [sth |-> NilHead, err |-> answer.err]
                   /\ sthCalls' = <<"GetSTH">>
              ELSE IF ~KeyConfigured(publicKey)
              THEN /\ sthRet' = [sth |-> answer.sth, err |-> "nil"]
                   /\ sthCalls' = <<"GetSTH">>
              ELSE IF Failed(NewSignatureVerifier(publicKey))
              THEN /\ sthRet' = [sth |-> NilHead, err |-> NewSignatureVerifier(publicKey)]
                   /\ sthCalls' = <<"GetSTH", "NewSignatureVerifier">>
              ELSE IF Failed(VerifySTHSignature(answer))
              THEN /\ sthRet' = [sth |-> NilHead, err |-> "STH signature is invalid"]
                   /\ sthCalls' = <<"GetSTH", "NewSignatureVerifier", "VerifySTHSignature">>
              ELSE /\ sthRet' = [sth |-> answer.sth, err |-> "nil"]
                   /\ sthCalls' = <<"GetSTH", "NewSignatureVerifier", "VerifySTHSignature">>
    /\ UNCHANGED <<opts, certsProcessed, scansLeft, envVars, pc, scanVars, treeBuilder,
                   fetchVars, chanVars, workerVars, result, sent, histWork, histFetch,
                   closedAt, exitedAt, batches, ccVars, publicKey>>

Fetcher == ScanStart \/ ScanBatch \/ ScanClose \/ ScanWait
              \/ FetchError \/ FetchAnswer \/ FetchAdd \/ FetchSend \/ FetchNext

Worker(sc, w) == WorkerReceive(sc, w) \/ WorkerCount(sc, w)
                    \/ WorkerReturn(sc, w) \/ WorkerExit(sc, w)

Next ==
    \/ ScanStart
    \/ ScanBatch
    \/ ScanClose
    \/ ScanWait
    \/ FetchError
    \/ FetchAnswer
    \/ FetchAdd
    \/ FetchSend
    \/ FetchNext
    \/ \E sc \in 1..cur, w \in Workers : WorkerReceive(sc, w)
    \/ \E sc \in 1..cur, w \in Workers : WorkerCount(sc, w)
    \/ \E sc \in 1..cur, w \in Workers : WorkerReturn(sc, w)
    \/ \E sc \in 1..cur, w \in Workers : WorkerExit(sc, w)

Spec == Init /\ [][Next]_vars

\* the scheduler runs every goroutine that can take a step, GetEntries
\* answers and callbacks return
WorkerStep(sc, w) == sc \in 1..cur /\ w \in Workers /\ Worker(sc, w)
Fairness ==
    /\ WF_vars(Fetcher)
    /\ \A w \in 1..MaxWorkers : WF_vars(WorkerStep(1, w))
SpecLive == Init /\ [][Next]_vars /\ Fairness

\* a Scan of more entries than the channel holds, in two batches, by one
\* worker, from a log that answers every request in full or with an error
InitFull ==
    /\ opts = [BatchSize |-> JobsCap, NumWorkers |-> 1]
    /\ InitState
    /\ publicKey = "nil"
    /\ scansLeft = 1
    /\ overReturn = 0
    /\ shortAnswers = FALSE
    /\ callerArgs = {[startIndex |-> 0, endIndex |-> JobsCap + 2,
                      treeBuilder |-> EmptyTree]}
SpecFull == InitFull /\ [][Next]_vars

\* a log whose answers may carry one entry more than the request asked for
InitOver ==
    /\ InitScanner
    /\ publicKey = "nil"
    /\ scansLeft = 1
    /\ overReturn = 1
    /\ shortAnswers = TRUE
    /\ callerArgs = {a \in SmallScans : a.startIndex <= a.endIndex}
SpecOver == InitOver /\ [][Next]_vars

\* a caller that calls Scan twice on the same Scanner with one worker, each
\* time for a range of at most MaxBatch entries that starts at 0, with a
\* tree builder
InitRescan ==
    /\ opts \in [BatchSize : 1..MaxBatch, NumWorkers : {1}]
    /\ InitState
    /\ publicKey = "nil"
    /\ scansLeft = 2
    /\ overReturn = 0
    /\ shortAnswers = TRUE
    /\ callerArgs = {a \in SmallScans : /\ a.startIndex = 0
                                        /\ a.endIndex \in 1..MaxBatch
                                        /\ a.treeBuilder = EmptyTree}
SpecRescan == InitRescan /\ [][Next]_vars

\* a caller that only compares tree heads
InitCC ==
    /\ InitScanner
    /\ publicKey = "nil"
    /\ scansLeft = 0
    /\ overReturn = 0
    /\ shortAnswers = TRUE
    /\ callerArgs = {}
NextCC == CheckConsistency
SpecCC == InitCC /\ [][NextCC]_vars

\* a caller that only fetches tree heads, with or without a public key
InitSTH ==
    /\ InitScanner
    /\ publicKey \in {"nil", "key", "unsupported"}
    /\ scansLeft = 0
    /\ overReturn = 0
    /\ shortAnswers = TRUE
    /\ callerArgs = {}
NextSTH == GetSTH
SpecSTH == InitSTH /\ [][NextSTH]_vars

(* ---------------------------- properties ------------------------------ *)
\* the indices of the range of the Scan in progress
ScanRange == {i \in Indices : startIndex <= i /\ i < endIndex}
\* how often index i occurs in the sequence q
Occurrences(q, i) == Cardinality({j \in 1..Len(q) : q[j] = i})
\* the Index of every entry waiting in a channel
QueuedIndices(q) == [j \in 1..Len(q) |-> q[j].Index]

\* C1: with a log client that answers every request with at most the
\* requested number of entries, a Scan invokes the callback only for
\* indices of [startIndex, endIndex), for each at most once, no index is
\* received twice, Scan returns an error only after a failed request, and
\* when Scan returns nil the callback was invoked for every index of the
\* range exactly once.
C1_ExactlyOnceDelivery ==
    \A sc \in {cur} \ {0} :
        /\ \A i \in Indices :
            /\ cbCalls[sc][i] <= 1
            /\ Occurrences(received[sc], i) <= 1
            /\ cbCalls[sc][i] > 0 => i \in ScanRange
        /\ result[sc] = "err" => fails > 0
        /\ result[sc] = "nil" => \A i \in ScanRange : cbCalls[sc][i] = 1
\* a Scan of MaxIndex entries in several batches with several workers, no
\* request of which failed or came back empty, has returned nil
C1_Witness ==
    /\ cur = 1 /\ result[1] = "nil"
    /\ okAt[1] = 0
    /\ endIndex - startIndex = MaxIndex
    /\ opts.BatchSize = 2 /\ opts.NumWorkers = 2
    /\ Len(sent[1]) = MaxIndex

\* C2: when Scan has returned nil, every index of the range was received
\* exactly once and its callback has returned, the channel was closed after
\* the last entry was sent, and every worker had exited before Scan
\* returned.
C2_NilMeansAllDone ==
    \A sc \in {cur} \ {0} :
        result[sc] = "nil" =>
            /\ \A i \in ScanRange :
                /\ Occurrences(received[sc], i) = 1
                /\ cbRets[sc][i] = 1
            /\ Total(cbRets[sc]) = Total(cbCalls[sc])
            /\ closed[sc]
            /\ closedAt[sc] = Len(sent[sc])
            /\ jobs[sc] = <<>>
            /\ exitedAt[sc] = opts.NumWorkers
            /\ \A w \in Workers : wpc[sc][w] = "exit"
\* Scan returned nil after two workers each processed an entry
C2_Witness ==
    /\ cur = 1 /\ result[1] = "nil"
    /\ opts.NumWorkers = 2
    /\ endIndex - startIndex >= 2
    /\ exitedAt[1] = 2

\* C3: while every run of consecutive failed requests is shorter than 10,
\* Scan does not return an error; and a Scan that returns nil has delivered
\* endIndex - startIndex entries to the callback.
C3_TransientFailuresSurvive ==
    \A sc \in {cur} \ {0} :
        /\ result[sc] = "err" => fails >= 10
        /\ result[sc] = "nil" =>
            /\ Total(cbRets[sc]) = endIndex - startIndex
            /\ certsProcessed = endIndex - startIndex
\* Scan returned nil although some request failed 9 times in a row
C3_Witness ==
    /\ cur = 1 /\ result[1] = "nil"
    /\ okAt[1] = 9
    /\ endIndex - startIndex >= 2

\* C4 as claimed: after 10 consecutive failed requests of one fetch, Scan
\* has returned an error.
C4_TenFailuresFatal ==
    (cur >= 1 /\ fails >= 10) => (result[cur] = "err" /\ pc = "idle")
\* C4, amended: fetch makes its first attempt and FETCH_RETRIES retries; the
\* 11th consecutive failure, and only that, makes Scan return an error, and
\* no request follows it.
C4_ElevenFailuresFatal ==
    /\ fails <= FETCH_RETRIES + 1
    /\ pc = "fetch" => fails <= FETCH_RETRIES /\ retries = FETCH_RETRIES - fails
    /\ \A sc \in {cur} \ {0} :
        /\ fails >= FETCH_RETRIES + 1 => (result[sc] = "err" /\ pc = "idle")
        /\ result[sc] = "err" =>
            /\ fails = FETCH_RETRIES + 1
            /\ lastLen = -1
            /\ retries = 0
            /\ pc = "idle"
\* Scan returned an error in its second batch
C4_Witness ==
    /\ cur = 1 /\ result[1] = "err"
    /\ fails = FETCH_RETRIES + 1
    /\ start > startIndex
    /\ Len(sent[1]) > 0

\* C5: after an answer with fewer entries than requested, fetch has not
\* returned; once the answer is ingested its next request is for the rest
\* of the range, no index skipped; fetch has returned nil only with
\* r.start > r.end, and an error only after a failed request.
C5_ShortAnswerContinues ==
    LET requested == lastReq.end - lastReq.start + 1
        answered == lastReq # NoReq /\ lastLen >= 0
        short == answered /\ 0 < lastLen /\ lastLen < requested
    IN /\ (pc \in {"ingest", "send"} /\ answered) =>
            r.start + Len(logEntries) = lastReq.start + lastLen
       /\ short => pc \in {"ingest", "send", "fetch"}
       /\ (pc = "fetch" /\ short) =>
            r = [start |-> lastReq.start + lastLen, end |-> lastReq.end]
       /\ (pc \in {"loop", "wait", "idle"} /\ answered) => r.start > r.end
       /\ (cur >= 1 /\ result[cur] = "err") => lastLen = -1
\* fetch is about to request the rest of a range after a short answer
C5_Witness ==
    /\ pc = "fetch"
    /\ lastReq # NoReq
    /\ lastLen = 1
    /\ lastReq.end - lastReq.start + 1 = 2
    /\ r.start = lastReq.start + 1


\* C6 as claimed: every Scan that was called eventually returns.
C6_ScanReturns == (pc # "idle") ~> (pc = "idle")

\* C7: when Scan has returned an error, its channel is not closed, it did
\* not wait for a worker, and none of its workers has exited: the wait
\* group still counts all of them.
C7_ErrorLeavesWorkers ==
    \A sc \in {cur} \ {0} :
        result[sc] = "err" =>
            /\ pc = "idle"
            /\ ~closed[sc]
            /\ closedAt[sc] = -1
            /\ exitedAt[sc] = 0
            /\ wg[sc] = opts.NumWorkers
            /\ \A w \in Workers : wpc[sc][w] # "exit"
\* Scan has returned an error while a callback is running and an entry is
\* still buffered
C7_Witness ==
    /\ cur = 1 /\ result[1] = "err"
    /\ jobs[1] # <<>>
    /\ \E w \in Workers : wpc[1][w] = "call"

\* C8: during a single Scan the counter is 0 until a worker counts its
\* first entry, equals the number of callback invocations (a monotone
\* count), is one per entry received except for the workers that have
\* received but not yet counted, and equals endIndex - startIndex when Scan
\* has returned nil.
C8_CounterExact ==
    \A sc \in {cur} \ {0} :
        LET counting == Cardinality({w \in Workers : wpc[sc][w] = "add"})
        IN /\ certsProcessed = Total(cbCalls[sc])
           /\ certsProcessed = Len(received[sc]) - counting
           /\ received[sc] = <<>> => certsProcessed = 0
           /\ result[sc] = "nil" => certsProcessed = endIndex - startIndex
\* Scan returned nil with the counter at MaxIndex and two workers
C8_Witness ==
    /\ cur = 1 /\ result[1] = "nil"
    /\ opts.NumWorkers = 2
    /\ certsProcessed = MaxIndex
    /\ cbRets[1][MaxIndex - 1] = 1

\* C9: the entries sent are startIndex, startIndex + 1, ... without a gap,
\* across batches too, and the entries received followed by the entries
\* still in the channel are the entries sent: workers receive in the order
\* of sending.
C9_SendOrderIsReceiveOrder ==
    \A sc \in {cur} \ {0} :
        /\ \A j \in 1..Len(sent[sc]) : sent[sc][j] = startIndex + j - 1
        /\ sent[sc] = received[sc] \o QueuedIndices(jobs[sc])
\* the callback for an index has returned while the callback for the index
\* before it, of another batch, is still running
C9_Witness ==
    /\ cur = 1
    /\ opts.BatchSize = 1
    /\ \E i \in Indices \ {0} :
        /\ cbRets[1][i] = 1
        /\ cbCalls[1][i - 1] = 1
        /\ cbRets[1][i - 1] = 0

\* C10: CheckConsistency of a first head larger than the second returns
\* valid = false, a nil tree builder, a nil proof and a nil error, and calls
\* neither GetConsistencyProof nor the verifier.
C10_ShrunkHead ==
    (ccArgs # NoHeads /\ ccArgs.first.TreeSize > ccArgs.second.TreeSize) =>
        /\ ccRet = [valid |-> FALSE, treeBuilder |-> NilTree, proof |-> NilProof,
                    err |-> "nil"]
        /\ ccCalls = <<>>
\* CheckConsistency was called with the log's own heads, the first larger
C10_Witness ==
    /\ ccArgs # NoHeads
    /\ ccArgs.first.TreeSize = MaxTree
    /\ ccArgs.second.TreeSize = MaxTree - 1
    /\ ccArgs.first.RootHash = LogRoot(MaxTree)
    /\ ccArgs.second.RootHash = LogRoot(MaxTree - 1)
    /\ ~ccRet.valid


\* C11 as claimed: GetConsistencyProof is called exactly when the first head
\* is smaller, for equal sizes the verifier gets and the caller receives the
\* empty proof with the verifier's verdict, and the returned proof is empty
\* exactly when the sizes are equal.
C11_EmptyIffEqual ==
    ccArgs # NoHeads =>
        LET first == ccArgs.first
            second == ccArgs.second
        IN /\ ("GetConsistencyProof" \in {ccCalls[j] : j \in 1..Len(ccCalls)})
                <=> first.TreeSize < second.TreeSize
           /\ first.TreeSize = second.TreeSize =>
                /\ ccVerified = EmptyProof
                /\ ccRet.proof = EmptyProof
                /\ ccRet.valid = VerifyConsistencyProof(EmptyProof, first, second).valid
                /\ ccRet.treeBuilder = VerifyConsistencyProof(EmptyProof, first, second).treeBuilder
           /\ (~ccRet.proof.nil /\ ccRet.proof.nodes = <<>>)
                <=> first.TreeSize = second.TreeSize
\* C11, amended: as claimed, but the returned proof is the empty one
\* whenever the sizes are equal, nil when the first head is larger or the
\* fetch failed, and otherwise whatever GetConsistencyProof answered, empty
\* or not, which is also what the verifier was handed.
C11_EmptyIfEqual ==
    ccArgs # NoHeads =>
        LET first == ccArgs.first
            second == ccArgs.second
        IN /\ ("GetConsistencyProof" \in {ccCalls[j] : j \in 1..Len(ccCalls)})
                <=> first.TreeSize < second.TreeSize
           /\ first.TreeSize = second.TreeSize =>
                /\ ccCalls = <<"VerifyConsistencyProof">>
                /\ ccAnswer = NoAnswer
                /\ ccVerified = EmptyProof
                /\ ccRet.proof = EmptyProof
                /\ ccRet.valid = VerifyConsistencyProof(EmptyProof, first, second).valid
                /\ ccRet.treeBuilder = VerifyConsistencyProof(EmptyProof, first, second).treeBuilder
           /\ first.TreeSize > second.TreeSize => ccRet.proof = NilProof
           /\ first.TreeSize < second.TreeSize =>
                IF ccAnswer.err = "nil"
                   THEN /\ ccRet.proof = ccAnswer.proof
                        /\ ccVerified = ccAnswer.proof
                        /\ ccRet.valid = VerifyConsistencyProof(ccAnswer.proof, first, second).valid
                        /\ ccRet.treeBuilder = VerifyConsistencyProof(ccAnswer.proof, first, second).treeBuilder
                   ELSE ccRet.proof = NilProof
\* two equal heads of the log were compared and found consistent without a
\* call to the log
C11_Witness ==
    /\ ccArgs # NoHeads
    /\ ccArgs.first = ccArgs.second
    /\ ccArgs.first.TreeSize = MaxTree
    /\ ccArgs.first.RootHash = LogRoot(MaxTree)
    /\ ccRet.valid
    /\ ccRet.proof = EmptyProof
    /\ ccCalls = <<"VerifyConsistencyProof">>

\* C12: CheckConsistency returns an error exactly when it called
\* GetConsistencyProof and the call failed; it then returns (false, nil,
\* nil, that error) and the verifier was not called.  A shrunken head and a
\* proof the verifier rejects give valid = false with a nil error.
C12_ErrorOnlyFromFetch ==
    ccArgs # NoHeads =>
        LET called == {ccCalls[j] : j \in 1..Len(ccCalls)}
        IN /\ ccRet.err # "nil" <=>
                ("GetConsistencyProof" \in called /\ ccAnswer.err \notin {"nil", "none"})
           /\ ccRet.err # "nil" =>
                /\ ccRet = [valid |-> FALSE, treeBuilder |-> NilTree,
                            proof |-> NilProof, err |-> ccAnswer.err]
                /\ "VerifyConsistencyProof" \notin called
           /\ ccArgs.first.TreeSize > ccArgs.second.TreeSize =>
                (~ccRet.valid /\ ccRet.err = "nil")
           /\ ("VerifyConsistencyProof" \in called
                    /\ ~VerifyConsistencyProof(ccVerified, ccArgs.first, ccArgs.second).valid) =>
                (~ccRet.valid /\ ccRet.err = "nil")
\* the fetch of a proof between two heads of the log failed
C12_Witness ==
    /\ ccArgs # NoHeads
    /\ ccArgs.first.TreeSize < ccArgs.second.TreeSize
    /\ ccAnswer.err = "transport"
    /\ ccRet.err = "transport"
    /\ ccCalls = <<"GetConsistencyProof">>

\* C13: GetSTH calls the log client's GetSTH exactly once.  It returns the
\* head it got and a nil error exactly when that call succeeded and either
\* no public key is configured, and then no verifier is used, or the
\* verifier accepted the head; a failed call returns its error and no head,
\* a rejected signature returns another error, and no head.
C13_GetSTH ==
    sthAnswer # NoSTHAnswer =>
        LET called == {sthCalls[j] : j \in 1..Len(sthCalls)}
            accepted == /\ "VerifySTHSignature" \in called
                        /\ VerifySTHSignature(sthAnswer) = "nil"
        IN /\ Cardinality({j \in 1..Len(sthCalls) : sthCalls[j] = "GetSTH"}) = 1
           /\ sthRet.err = "nil" <=>
                (sthAnswer.err = "nil" /\ (publicKey = "nil" \/ accepted))
           /\ sthRet.err = "nil" => sthRet.sth = sthAnswer.sth
           /\ sthRet.err # "nil" => sthRet.sth = NilHead
           /\ publicKey = "nil" => sthCalls = <<"GetSTH">>
           /\ sthAnswer.err # "nil" =>
                (sthRet.err = sthAnswer.err /\ sthCalls = <<"GetSTH">>)
           /\ ("VerifySTHSignature" \in called /\ ~accepted) =>
                (sthRet.err = "STH signature is invalid" /\ sthRet.err # sthAnswer.err)
\* a Scanner with a public key got a head whose signature the verifier
\* rejected
C13_Witness ==
    /\ publicKey = "key"
    /\ sthAnswer.err = "nil"
    /\ ~sthAnswer.signed
    /\ sthAnswer.sth.TreeSize = MaxTree
    /\ sthRet.err = "STH signature is invalid"
    /\ sthRet.sth = NilHead

\* 2 to the power n
RECURSIVE Pow2(_)
Pow2(n) == IF n <= 0 THEN 1 ELSE 2 * Pow2(n - 1)

\* C14: after the k-th consecutive failure of a fetch the wait slept before
\* the retry was 2^(k-1) seconds and the next wait is 2^k; after every
\* answer, short or empty ones too, and at the start of a fetch, the retry
\* counter and the wait are FETCH_RETRIES and FETCH_RETRY_WAIT, so only
\* consecutive failures count.
C14_BackoffAndReset ==
    /\ (pc = "fetch" /\ fails >= 1) =>
        /\ slept = Pow2(fails - 1) * FETCH_RETRY_WAIT
        /\ retryWait = Pow2(fails) * FETCH_RETRY_WAIT
        /\ retries = FETCH_RETRIES - fails
    /\ (pc = "fetch" /\ fails = 0) =>
        (retries = FETCH_RETRIES /\ retryWait = FETCH_RETRY_WAIT)
    /\ pc \in {"ingest", "send"} =>
        (fails = 0 /\ retries = FETCH_RETRIES /\ retryWait = FETCH_RETRY_WAIT)
\* the third failure in a row, after an earlier run of failures that ended
\* with an empty answer
C14_Witness ==
    /\ cur = 1 /\ pc = "fetch"
    /\ okAt[1] >= 2
    /\ lastReq = r
    /\ fails = 3 /\ slept = 4 /\ retryWait = 8
    /\ sent[1] = <<>>

\* C15: the ranges Scan hands to fetch are consecutive batches of at most
\* BatchSize indices: the first starts at startIndex, each next one at the
\* end of the one before plus 1, none reaches past endIndex - 1, and the
\* last one of a Scan that returned nil ends there; every GetEntries request
\* lies inside the batch being fetched and ends at its end; a batch is
\* handed to fetch only when all indices before it were sent.
C15_ConsecutiveBatches ==
    \A sc \in {cur} \ {0} :
        LET B == batches[sc]
            n == Len(B)
        IN /\ \A j \in 1..n :
                /\ startIndex <= B[j].start
                /\ B[j].start <= B[j].end
                /\ B[j].end <= endIndex - 1
                /\ B[j].end - B[j].start + 1 <= opts.BatchSize
                /\ B[j].start = IF j = 1 THEN startIndex ELSE B[j - 1].end + 1
           /\ (n = 0 /\ result[sc] = "nil") => startIndex = endIndex
           /\ (n > 0 /\ result[sc] = "nil") => B[n].end = endIndex - 1
           /\ (n > 0 /\ lastReq # NoReq) =>
                /\ B[n].start <= lastReq.start
                /\ lastReq.start <= lastReq.end
                /\ lastReq.end = B[n].end
           /\ n > 0 => Len(sent[sc]) >= B[n].start - startIndex
           /\ (n > 0 /\ pc \in {"fetch", "ingest", "send"}) =>
                (r.end = B[n].end /\ Len(sent[sc]) = r.start - startIndex)
\* a Scan of MaxIndex entries with BatchSize 2 returned nil: a full batch
\* and a shorter last one
C15_Witness ==
    /\ cur = 1 /\ result[1] = "nil"
    /\ opts.BatchSize = 2
    /\ endIndex - startIndex = 3
    /\ Len(batches[1]) = 2
    /\ batches[1][2].start = batches[1][2].end

\* the leaf hashes of the entries with the indices in q
Hashes(q) == [j \in 1..Len(q) |-> hashLeaf(q[j])]

\* C16: with a tree builder, the hashes added are the leaf hashes of the
\* entries sent, in the order of sending, plus, while the send of an entry
\* is still to come, the hash of that entry; every entry in the channel
\* carries the index of the log position its bytes come from; after a Scan
\* that returned nil the builder holds the hashes of startIndex, ...,
\* endIndex - 1 in that order.  With a nil builder nothing is added.
C16_HashBeforeSend ==
    \A sc \in {cur} \ {0} :
        /\ \A j \in 1..Len(jobs[sc]) : jobs[sc][j].Index = jobs[sc][j].LeafBytes
        /\ treeBuilder.nil => treeBuilder = NilTree /\ pc # "send"
        /\ ~treeBuilder.nil =>
            /\ treeBuilder.hashes =
                    IF pc = "send"
                       THEN Append(Hashes(sent[sc]), hashLeaf(Head(logEntries)))
                       ELSE Hashes(sent[sc])
            /\ result[sc] = "nil" =>
                /\ Len(treeBuilder.hashes) = endIndex - startIndex
                /\ \A j \in 1..Len(treeBuilder.hashes) :
                    treeBuilder.hashes[j] = hashLeaf(startIndex + j - 1)
\* the hash of the second entry of a batch is added, the entry not yet sent
C16_Witness ==
    /\ cur = 1 /\ pc = "send"
    /\ Len(treeBuilder.hashes) = Len(sent[1]) + 1
    /\ Len(sent[1]) = 1
    /\ r.start = lastReq.start + 1
    /\ lastLen = 2


(* ---------------------------------------------------------------------- *)
\* the fetcher stands at the send of an entry
AtSend ==
    \/ pc = "send"
    \/ pc = "ingest" /\ logEntries # <<>> /\ ~TreeSupplied(treeBuilder)

\* C17: the channel never holds more than 100 entries; while it holds 100
\* the fetcher standing at a send cannot take any step (it fetches nothing
\* further), with room it can send at once; and every entry sent is either
\* received by a worker or still queued, in order: none is dropped
C17_Backpressure ==
    \A sc \in {cur} \ {0} :
        /\ Len(jobs[sc]) <= JobsCap
        /\ sent[sc] = received[sc] \o QueuedIndices(jobs[sc])
        /\ (pc # "idle" /\ AtSend /\ Len(jobs[sc]) = JobsCap) => ~ENABLED Fetcher
        /\ (pc # "idle" /\ AtSend /\ Len(jobs[sc]) < JobsCap) => ENABLED FetchSend

\* the channel is full, the worker has received nothing yet, and the
\* fetcher stands at the send of the next entry of the second batch
C17_Witness ==
    /\ cur = 1
    /\ Len(jobs[1]) = JobsCap
    /\ AtSend
    /\ r.start = JobsCap
    /\ Len(batches[1]) = 2
    /\ endIndex > r.end

(* ---------------------------------------------------------------------- *)
\* C18: whatever number of entries an answer carries, every index sent is
\* within the batch being fetched (after a send r.start is at most one past
\* r.end), hence within [startIndex, endIndex), and no index is sent twice
C18_SentWithinBatch ==
    \A sc \in {cur} \ {0} :
        /\ pc \in {"fetch", "ingest", "send"} => r.start <= r.end + 1
        /\ \A j \in 1..Len(sent[sc]) :
                /\ startIndex <= sent[sc][j]
                /\ sent[sc][j] < endIndex
        /\ \A i \in Indices : Occurrences(sent[sc], i) <= 1

(* ---------------------------------------------------------------------- *)
\* C19: whenever a Scan of N entries returns nil, also a Scan that follows
\* one that returned an error with entries still in its channel, the
\* counter certsProcessed is exactly N at that return
C19_CounterExactAfterRescan ==
    [][(pc = "wait" /\ pc' = "idle" /\ result'[cur] = "nil")
            => certsProcessed' = endIndex - startIndex]_vars

(* ---------------------------------------------------------------------- *)
\* the callbacks invoked by Scan sc are for indices of the contiguous run
\* sent so far from startIndex, each at most once, and for all of that run
\* once the channel is empty and no worker holds an entry
InvokedPrefix(sc) ==
    LET last == startIndex + Len(sent[sc]) - 1
        quiet == /\ jobs[sc] = <<>>
                 /\ \A w \in Workers : wpc[sc][w] \in {"range", "exit"}
    IN  \A i \in DOMAIN cbCalls[sc] :
            /\ cbCalls[sc][i] <= 1
            /\ cbCalls[sc][i] = 1 => (startIndex <= i /\ i <= last)
            /\ (quiet /\ startIndex <= i /\ i <= last) => cbCalls[sc][i] = 1

\* C20: once Scan has returned, with nil or with an error, no callback of
\* that Scan is running and none is invoked in any later step; after an
\* error the callbacks invoked are for a contiguous prefix of the indices
\* from startIndex, each at most once
C20_NoCallbackAfterReturn ==
    [][\A sc \in {cur} \ {0} :
            result[sc] # "running" =>
                /\ \A w \in Workers : wpc[sc][w] # "call"
                /\ cbCalls'[sc] = cbCalls[sc]
                /\ result[sc] = "err" => InvokedPrefix(sc)]_vars

\* the part of C20 that does not depend on the join
C20_PrefixOnly ==
    \A sc \in {cur} \ {0} : InvokedPrefix(sc)
====
